---- MODULE Spec2Model ----
(***************************************************************************)
(* A model of flanker/mime/message/part.py: the Stream / Body containers,  *)
(* the MimePart tree, change tracking, the serializer (to_string,          *)
(* to_stream, _to_stream_when_changed), the transfer-encoding pipelines    *)
(* and the quoted-printable dot-stuffing transform.                        *)
(*                                                                         *)
(* Bytes are natural numbers 0..255.  A message is a sequence of tokens;   *)
(* a token is one header line, one line terminator, one boundary line or   *)
(* the body bytes of one part.                                             *)
(***************************************************************************)
EXTENDS Integers, Sequences, FiniteSets, TLC

\* ------------------------------------------------------------------ bounds
\* Longest run of operations on the message tree.
MaxOps == 3
\* Most headers prepended to one part.
MaxPrepends == 1
\* Bytes in the varied window of a dot-stuffing input.
MaxWindow == 2
\* Distinct offsets of the varied window around the middle of the line.
MaxShift == 3
\* Nodes of a tree in the traversal specification.
MaxTree == 5
\* Parts built by the application and appended to a parsed message.
MaxFresh == 1
\* MimeParts constructed in the forest specification.
MaxParts == 3

\* ------------------------------------------------------- program constants
\* part.py:717  "if len(ln) <= 77"
MaxLnLen == 77
\* part.py:781  has_long_lines(text, max_line_len=599)
max_line_len == 599

\* ------------------------------------------------------------------- bytes
DOT == 46
EQ == 61
LF == 10
CR == 13
SP == 32
TAB == 9

Fill(c, k) == [i \in 1..k |-> c]

Last(s) == s[Len(s)]
Front(s) == SubSeq(s, 1, Len(s) - 1)
\* Python's s[i:j] on a sequence, 0-based, clipped.
Slice(s, i, j) ==
    LET lo == IF i < 0 THEN 0 ELSE i
        hi == IF j > Len(s) THEN Len(s) ELSE j
    IN IF hi <= lo THEN <<>> ELSE SubSeq(s, lo + 1, hi)

\* ------------------------------------------------------- quoted-printable
\* quopri.ishex (called at part.py:741); the empty slice is not hex.
ishex(c) ==
    /\ Len(c) = 1
    /\ \/ c[1] \in 48..57
       \/ c[1] \in 97..102
       \/ c[1] \in 65..70

HexDigit(d) == IF d < 10 THEN 48 + d ELSE 55 + d
HexValue(c) ==
    IF c \in 48..57 THEN c - 48
    ELSE IF c \in 65..70 THEN c - 55
    ELSE c - 87

\* quopri.quote (called at part.py:714, 750, 758): "=XX", upper-case hex.
quote(c) == <<EQ, HexDigit(c[1] \div 16), HexDigit(c[1] % 16)>>

\* binascii.b2a_qp as quopri.encodestring(body, quotetabs=False) runs it: whether
\* the text uses CRLF line ends (its first line end decides).
b2a_qp_crlf(data) ==
    \E p \in 2..Len(data) :
        /\ data[p] = LF
        /\ data[p - 1] = CR
        /\ \A q \in 1..(p - 1) : data[q] # LF

b2a_qp_quoted(data, i, linelen) ==
    LET c == data[i]
        n == Len(data)
    IN \/ c > 126
       \/ c = EQ
       \/ c = DOT /\ linelen = 0 /\ (i = n \/ data[i + 1] \in {LF, CR, 0})
       \/ c \in {TAB, SP} /\ i = n
       \/ c < 33 /\ c \notin {CR, LF, TAB, SP}

\* One turn of b2a_qp's loop at input index i; st.i is the index the loop is at
\* (a turn that consumed two bytes makes the next index a no-op).
b2a_qp_step(data, crlf, st, i) ==
    LET n == Len(data)
        eol == IF crlf THEN <<CR, LF>> ELSE <<LF>>
        c == data[i]
        out == st.out
        linelen == st.linelen
    IN
    IF st.i # i THEN st
    ELSE IF b2a_qp_quoted(data, i, linelen)
    THEN
        IF linelen + 3 >= 76
        THEN [i |-> i + 1, out |-> out \o <<EQ>> \o eol \o quote(<<c>>), linelen |-> 3]
        ELSE [i |-> i + 1, out |-> out \o quote(<<c>>), linelen |-> linelen + 3]
    ELSE IF c = LF \/ (i + 1 <= n /\ c = CR /\ data[i + 1] = LF)
    THEN
        LET prot == IF Len(out) > 0 /\ Last(out) \in {SP, TAB}
                    THEN Front(out) \o quote(<<Last(out)>>)
                    ELSE out
        IN [i |-> IF c = CR THEN i + 2 ELSE i + 1, out |-> prot \o eol, linelen |-> 0]
    ELSE
        IF i # n /\ data[i + 1] # LF /\ linelen + 1 >= 76
        THEN [i |-> i + 1, out |-> out \o <<EQ>> \o eol \o <<c>>, linelen |-> 1]
        ELSE [i |-> i + 1, out |-> out \o <<c>>, linelen |-> linelen + 1]

\* The loop over the indices lo..hi, split in halves to keep the evaluation shallow.
RECURSIVE b2a_qp_loop(_, _, _, _, _)
b2a_qp_loop(data, crlf, st, lo, hi) ==
    IF lo > hi THEN st
    ELSE IF lo = hi THEN b2a_qp_step(data, crlf, st, lo)
    ELSE LET mid == (lo + hi) \div 2
             left == b2a_qp_loop(data, crlf, st, lo, mid)
         IN IF left.i > hi THEN left ELSE b2a_qp_loop(data, crlf, left, mid + 1, hi)

\* quopri.encodestring(body, quotetabs=False) (part.py:641, 658)
encodestring(body) ==
    b2a_qp_loop(body, b2a_qp_crlf(body), [i |-> 1, out |-> <<>>, linelen |-> 0],
                1, Len(body)).out

\* The index of the first line feed at or after i, or Len + 1.
NextLF(s, i) ==
    IF \E j \in i..Len(s) : s[j] = LF
    THEN CHOOSE j \in i..Len(s) : s[j] = LF /\ \A k \in i..(j - 1) : s[k] # LF
    ELSE Len(s) + 1

\* One turn of binascii.a2b_qp's loop (quopri.decodestring runs it, part.py:584).
a2b_qp_step(data, st, i) ==
    LET n == Len(data)
        out == st.out
    IN
    IF st.i # i THEN st
    ELSE IF data[i] = EQ
    THEN
        IF i + 1 > n THEN [i |-> n + 1, out |-> out]
        ELSE IF data[i + 1] \in {LF, CR}
        THEN
            LET j == IF data[i + 1] # LF THEN NextLF(data, i + 1) ELSE i + 1
            IN [i |-> IF j <= n THEN j + 1 ELSE j, out |-> out]
        ELSE IF data[i + 1] = EQ
        THEN [i |-> i + 2, out |-> out \o <<EQ>>]
        ELSE IF i + 2 <= n /\ ishex(<<data[i + 1]>>) /\ ishex(<<data[i + 2]>>)
        THEN [i |-> i + 3,
              out |-> out \o <<16 * HexValue(data[i + 1]) + HexValue(data[i + 2])>>]
        ELSE [i |-> i + 1, out |-> out \o <<EQ>>]
    ELSE [i |-> i + 1, out |-> out \o <<data[i]>>]

RECURSIVE a2b_qp_loop(_, _, _, _)
a2b_qp_loop(data, st, lo, hi) ==
    IF lo > hi THEN st
    ELSE IF lo = hi THEN a2b_qp_step(data, st, lo)
    ELSE LET mid == (lo + hi) \div 2
             left == a2b_qp_loop(data, st, lo, mid)
         IN IF left.i > hi THEN left ELSE a2b_qp_loop(data, left, mid + 1, hi)

\* quopri.decodestring(body) (part.py:584)
decodestring(body) == a2b_qp_loop(body, [i |-> 1, out |-> <<>>], 1, Len(body)).out

\* ------------------------------------------------------------ dot stuffing
\* One turn of the "for pos, c in enumerate(ln)" loop of _quote_and_cut
\* (part.py:722-743).  st.cut is the position of the break, -1 before it.  py3 is
\* six.PY3: len(ln)/2 is a true division there, an integer division under Python 2.
_cut_step(ln, py3, st, pos) ==
    LET n == Len(ln)
        past == IF py3 THEN 2 * pos > n ELSE pos > n \div 2
        c == ln[pos + 1]
    IN
    IF st.cut >= 0 THEN st
    ELSE IF st.in_quote # 0 /\ st.in_quote + 1 <= 3
    THEN [in_quote |-> st.in_quote + 1, cut |-> -1]
    ELSE IF past THEN [in_quote |-> 0, cut |-> pos]
    ELSE IF c = EQ /\ ishex(Slice(ln, pos + 1, pos + 2))
    THEN [in_quote |-> 1, cut |-> -1]
    ELSE [in_quote |-> 0, cut |-> -1]

RECURSIVE _cut_loop(_, _, _, _, _)
_cut_loop(ln, py3, st, lo, hi) ==
    IF lo > hi THEN st
    ELSE IF lo = hi THEN _cut_step(ln, py3, st, lo)
    ELSE LET mid == (lo + hi) \div 2
             left == _cut_loop(ln, py3, st, lo, mid)
         IN IF left.cut >= 0 THEN left ELSE _cut_loop(ln, py3, left, mid + 1, hi)

\* part.py:721-746: the cut position, the last index when the loop never breaks.
_cut_pos(ln, py3) ==
    LET st == _cut_loop(ln, py3, [in_quote |-> 0, cut |-> -1], 0, Len(ln) - 1)
    IN IF st.cut >= 0 THEN st.cut ELSE Len(ln) - 1

\* part.py:748-750: a trailing space or tab of the first half is hex-escaped.
\* (new_line[-1:] in b' \t' is also true of the empty slice.)
_quote_trailing(new_line) ==
    IF Len(new_line) = 0 \/ Last(new_line) \in {SP, TAB}
    THEN Front(new_line) \o quote(Slice(new_line, Len(new_line) - 1, Len(new_line)))
    ELSE new_line

\* A continuation line left as it was cut.
_keep_next(next_line) == next_line

\* part.py:756-758: a leading dot of the continuation line is hex-escaped.
_quote_next(next_line) ==
    IF next_line[1] = DOT
    THEN quote(Slice(next_line, 0, 1)) \o Tail(next_line)
    ELSE next_line

\* The halves joined by a hard line break.
_join_hard(new_line, next_line) == new_line \o <<LF>> \o next_line

\* part.py:760
_join_halves(new_line, next_line) == new_line \o <<EQ, LF>> \o next_line

\* part.py:708-760
_quote_and_cut(ln0, py3) ==
    LET ln == quote(Slice(ln0, 0, 1)) \o Tail(ln0)
    IN IF Len(ln) <= MaxLnLen THEN ln
       ELSE LET pos == _cut_pos(ln, py3)
                new_line == Slice(ln, 0, pos)
                next_line == Slice(ln, pos, Len(ln))
            IN _join_halves(_quote_trailing(new_line), _quote_next(next_line))

\* part.py:700-701
_fix_line(line, py3) == IF line[1] = DOT THEN _quote_and_cut(line, py3) ELSE line

\* part.py:666-705
RECURSIVE fix_leading_dot(_, _)
fix_leading_dot(s, py3) ==
    IF Len(s) = 0 THEN <<>>
    ELSE LET k == IF NextLF(s, 1) > Len(s) THEN Len(s) ELSE NextLF(s, 1)
         IN _fix_line(SubSeq(s, 1, k), py3) \o fix_leading_dot(SubSeq(s, k + 1, Len(s)), py3)

\* ------------------------------------------------------------------ base64
\* _b64_alphabet (part.py:836): the value of an alphabet character, 64 otherwise.
b64_value(ch) ==
    IF ch \in 65..90 THEN ch - 65
    ELSE IF ch \in 97..122 THEN ch - 71
    ELSE IF ch \in 48..57 THEN ch + 4
    ELSE IF ch = 43 THEN 62
    ELSE IF ch = 47 THEN 63
    ELSE 64

b64_char(v) ==
    IF v < 26 THEN v + 65
    ELSE IF v < 52 THEN v + 71
    ELSE IF v < 62 THEN v - 4
    ELSE IF v = 62 THEN 43
    ELSE 47

\* binascii.a2b_base64 as base64.b64decode(s) runs it (part.py:798, 805, 808): one
\* turn of its loop.  st = [quad_pos, leftchar, pads, out, done].
a2b_base64_step(st, ch) ==
    LET v == b64_value(ch)
    IN
    IF st.done THEN st
    ELSE IF ch = EQ
    THEN IF st.quad_pos >= 2 /\ st.quad_pos + st.pads + 1 >= 4
         THEN [st EXCEPT !.pads = st.pads + 1, !.done = TRUE]
         ELSE IF st.quad_pos >= 2 THEN [st EXCEPT !.pads = st.pads + 1] ELSE st
    ELSE IF v >= 64 THEN st
    ELSE IF st.quad_pos = 0
    THEN [st EXCEPT !.quad_pos = 1, !.leftchar = v, !.pads = 0]
    ELSE IF st.quad_pos = 1
    THEN [st EXCEPT !.quad_pos = 2, !.leftchar = v % 16, !.pads = 0,
                    !.out = st.out \o <<(st.leftchar * 4 + v \div 16) % 256>>]
    ELSE IF st.quad_pos = 2
    THEN [st EXCEPT !.quad_pos = 3, !.leftchar = v % 4, !.pads = 0,
                    !.out = st.out \o <<(st.leftchar * 16 + v \div 4) % 256>>]
    ELSE [st EXCEPT !.quad_pos = 0, !.leftchar = 0, !.pads = 0,
                    !.out = st.out \o <<(st.leftchar * 64 + v) % 256>>]

RECURSIVE a2b_base64_loop(_, _, _)
a2b_base64_loop(s, st, i) ==
    IF i > Len(s) THEN st
    ELSE a2b_base64_loop(s, a2b_base64_step(st, s[i]), i + 1)

\* base64.b64decode(s): [ok, v]; ok is false where binascii.Error is raised (a
\* ValueError; Python 2 turns it into a TypeError).
b64decode(s) ==
    LET st == a2b_base64_loop(s, [quad_pos |-> 0, leftchar |-> 0, pads |-> 0,
                                  out |-> <<>>, done |-> FALSE], 1)
    IN [ok |-> st.done \/ st.quad_pos = 0, v |-> st.out]

\* part.py:843-860: only the characters of the base64 alphabet are kept.
_recover_base64(s) == SelectSeq(s, LAMBDA ch : b64_value(ch) < 64)

\* part.py:795-808.  The outcome is [ok, v]; ok false is the exception of the second
\* b64decode, which no handler of this module turns into a DecodingError.
_base64_decode(s0) ==
    LET first == b64decode(s0)
        s == _recover_base64(s0)
        tail_size == Len(s) % 4
    IN IF first.ok THEN first
       ELSE IF tail_size = 1 THEN b64decode(Front(s))
       ELSE b64decode(s \o Fill(EQ, 4 - tail_size))

\* One group of up to three bytes as four base64 characters.
b64_group(g) ==
    LET b1 == g[1]
        b2 == IF Len(g) >= 2 THEN g[2] ELSE 0
        b3 == IF Len(g) >= 3 THEN g[3] ELSE 0
    IN << b64_char(b1 \div 4),
          b64_char((b1 % 4) * 16 + b2 \div 16),
          IF Len(g) >= 2 THEN b64_char((b2 % 16) * 4 + b3 \div 64) ELSE EQ,
          IF Len(g) >= 3 THEN b64_char(b3 % 64) ELSE EQ >>

RECURSIVE b64encode(_)
b64encode(body) ==
    IF Len(body) = 0 THEN <<>>
    ELSE IF Len(body) <= 3 THEN b64_group(body)
    ELSE LET k == 3 * (((Len(body) + 2) \div 3) \div 2)
         IN b64encode(Slice(body, 0, k)) \o b64encode(Slice(body, k, Len(body)))

\* _email.encode_base64(body) (part.py:649, 661): base64 in lines of at most 76
\* characters, each ended by a line feed.
RECURSIVE b64_lines(_)
b64_lines(e) ==
    IF Len(e) = 0 THEN <<>>
    ELSE Slice(e, 0, 76) \o <<LF>> \o b64_lines(Slice(e, 76, Len(e)))

encode_base64(body) == b64_lines(b64encode(body))

\* ---------------------------------------------------------------- charsets
\* str.encode('utf-8') / bytes.decode('utf-8') on code points below 2048.
RECURSIVE utf8_encode(_)
utf8_encode(text) ==
    IF Len(text) = 0 THEN <<>>
    ELSE IF Len(text) = 1
    THEN (IF text[1] < 128 THEN <<text[1]>>
          ELSE <<192 + (text[1] \div 64), 128 + (text[1] % 64)>>)
    ELSE utf8_encode(Slice(text, 0, Len(text) \div 2))
         \o utf8_encode(Slice(text, Len(text) \div 2, Len(text)))

utf8_valid(b) ==
    \A i \in 1..Len(b) :
        \/ b[i] < 128
        \/ b[i] \in 194..223 /\ i < Len(b) /\ b[i + 1] \in 128..191
        \/ b[i] \in 128..191 /\ i > 1 /\ b[i - 1] \in 194..223

RECURSIVE utf8_decode(_)
utf8_decode(b) ==
    IF Len(b) = 0 THEN <<>>
    ELSE IF Len(b) = 1 /\ b[1] < 128 THEN b
    ELSE IF Len(b) <= 2 /\ b[1] >= 128 THEN <<(b[1] - 192) * 64 + (b[2] - 128)>>
    ELSE LET h == Len(b) \div 2
             cut == IF b[h + 1] \in 128..191 THEN h + 1 ELSE h
         IN utf8_decode(Slice(b, 0, cut)) \o utf8_decode(Slice(b, cut, Len(b)))

\* text.encode(charset) (part.py:631, 634): [ok, v]; ok false is the exception
\* (UnicodeEncodeError, LookupError, or TypeError for charset None, written "").
str_encode(text, charset) ==
    IF charset \in {"ascii", "us-ascii"}
    THEN [ok |-> \A i \in 1..Len(text) : text[i] < 128, v |-> text]
    ELSE IF charset = "iso-8859-1"
    THEN [ok |-> \A i \in 1..Len(text) : text[i] < 256, v |-> text]
    ELSE IF charset = "utf-8" THEN [ok |-> TRUE, v |-> utf8_encode(text)]
    ELSE [ok |-> FALSE, v |-> text]

\* charsets.convert_to_unicode(charset, body) (part.py:594): the charset decoder,
\* with iso-8859-1 as the fallback for bytes the charset does not decode.
convert_to_unicode(charset, body) ==
    IF charset = "utf-8" /\ utf8_valid(body) THEN utf8_decode(body) ELSE body

\* part.py:628-635
_encode_charset(preferred_charset, text) ==
    LET r == str_encode(text, preferred_charset)
    IN IF r.ok
       THEN [charset |-> IF preferred_charset = "" THEN "ascii" ELSE preferred_charset,
             text |-> r.v]
       ELSE [charset |-> "utf-8", text |-> utf8_encode(text)]

\* ------------------------------------------------------------ content types
\* A content type is [main, sub, charset, boundary]; charset "" is no charset
\* parameter.  The predicates of headers.ContentType that part.py calls.
ContentType(main, sub, charset, boundary) ==
    [main |-> main, sub |-> sub, charset |-> charset, boundary |-> boundary]

is_multipart(ctype) == ctype.main = "multipart"

is_message_container(ctype) == ctype.main = "message" /\ ctype.sub \in {"rfc822", "global"}

is_delivery_status(ctype) == ctype.main = "message" /\ ctype.sub = "delivery-status"

is_singlepart(ctype) == ctype.main \notin {"multipart", "message"}

\* ContentType.get_charset(): text defaults to ascii, lower-cased.
get_charset(ctype) ==
    IF ctype.charset # "" THEN ctype.charset
    ELSE IF ctype.main = "text" THEN "ascii" ELSE ""

\* ----------------------------------------------------------------- decoding
\* part.py:580-586: [ok, v]
_decode_transfer_encoding(encoding, body) ==
    IF encoding = "base64" THEN _base64_decode(body)
    ELSE IF encoding = "quoted-printable" THEN [ok |-> TRUE, v |-> decodestring(body)]
    ELSE [ok |-> TRUE, v |-> body]

\* body.replace(u'\xa0', u'&nbsp;') (part.py:601)
RECURSIVE replace_nbsp(_)
replace_nbsp(body) ==
    IF Len(body) = 0 THEN <<>>
    ELSE (IF body[1] = 160 THEN <<38, 110, 98, 115, 112, 59>> ELSE <<body[1]>>)
         \o replace_nbsp(Tail(body))

\* part.py:589-603
_decode_charset(ctype, body) ==
    IF ctype.main # "text" THEN body
    ELSE LET charset == get_charset(ctype)
             text == convert_to_unicode(charset, body)
         IN IF ctype.sub = "html" /\ charset = "utf-8" THEN replace_nbsp(text) ELSE text

\* part.py:572-577: [ok, v]
_decode_body(content_type, content_encoding, body) ==
    LET r == _decode_transfer_encoding(content_encoding, body)
    IN IF r.ok THEN [ok |-> TRUE, v |-> _decode_charset(content_type, r.v)] ELSE r

\* ----------------------------------------------------------------- encoding
\* part.py:781-792: some line of the text has max_line_len characters or more.
has_long_lines(text) ==
    \E i \in 1..(Len(text) - max_line_len + 1) :
        \A j \in i..(i + max_line_len - 1) : text[j] \notin {LF, CR}

\* part.py:775: the weights of _stronger_encoding, -1 for an unknown name.
weights(a) ==
    IF a = "7bit" THEN 0
    ELSE IF a \in {"quoted-printable", "base64"} THEN 1
    ELSE IF a = "8bit" THEN 3
    ELSE -1

\* A choice that always takes its second argument.
_second_encoding(a, b) == b

\* part.py:774-778
_stronger_encoding(a, b) == IF weights(a) >= weights(b) THEN a ELSE b

\* part.py:763-771
_choose_text_encoding(charset, preferred_encoding, body) ==
    IF charset \in {"ascii", "iso-8859-1", "us-ascii"}
    THEN IF has_long_lines(body)
         THEN _stronger_encoding(preferred_encoding, "quoted-printable")
         ELSE preferred_encoding
    ELSE _stronger_encoding(preferred_encoding, "quoted-printable")

\* part.py:638-663: [ok, v]; py3 is six.PY3.  Under Python 3 the result is text:
\* bytes.decode('utf-8') raises UnicodeDecodeError on bytes that are not UTF-8.
_encode_transfer_encoding(py3, encoding, body) ==
    IF encoding = "quoted-printable"
    THEN [ok |-> TRUE, v |-> fix_leading_dot(encodestring(body), py3)]
    ELSE IF encoding = "base64" THEN [ok |-> TRUE, v |-> encode_base64(body)]
    ELSE IF py3 THEN [ok |-> utf8_valid(body),
                      v |-> IF utf8_valid(body) THEN utf8_decode(body) ELSE body]
    ELSE [ok |-> TRUE, v |-> body]

\* ---------------------------------------------------- tokens of the buffer
\* A token is <<kind, name, value, param, data>>: one header line ("hdr" in the
\* form the header serializer writes, "rawhdr" in another folding of the same
\* field, "badhdr" a line the header parser rejects), one line terminator, one
\* boundary line, or the bytes of one body.  Offsets count tokens.
Header(kind, item) == <<kind, item[1], item[2], item[3], <<>> >>
_CRLF == <<"crlf", "", "", "", <<>> >>
BodyToken(data) == IF Len(data) = 0 THEN <<>> ELSE << <<"body", "", "", "", data>> >>
Envelope == <<"envelope", "", "", "", <<>> >>

\* ContentType.get_boundary_line(final) (part.py:561, 566)
get_boundary_line(ctype, final) ==
    <<IF final THEN "final" ELSE "boundary", ctype.boundary, "", "", <<>> >>

\* The bytes of a body read from the buffer.
BytesOf(tokens) == IF Len(tokens) = 0 THEN <<>> ELSE tokens[1][5]

\* ------------------------------------------------- the header collaborator
\* headers.MimeHeaders: the ordered items <<name, value, param>>, the changed
\* flag and the count of prepended items.  loaded = FALSE is _headers = None.
None_headers == [loaded |-> FALSE, v |-> <<>>, changed |-> FALSE, num_prepends |-> 0]
MimeHeaders(items) == [loaded |-> TRUE, v |-> items, changed |-> FALSE, num_prepends |-> 0]

contains(h, name) == \E i \in 1..Len(h.v) : h.v[i][1] = name

get(h, name, default) ==
    IF contains(h, name)
    THEN h.v[CHOOSE i \in 1..Len(h.v) :
                 h.v[i][1] = name /\ \A j \in 1..(i - 1) : h.v[j][1] # name]
    ELSE default

prepend(h, item) == [h EXCEPT !.v = <<item>> \o h.v, !.num_prepends = h.num_prepends + 1]

delitem(h, name) ==
    [h EXCEPT !.v = SelectSeq(h.v, LAMBDA it : it[1] # name), !.changed = TRUE]

\* MimeHeaders.__setitem__: an existing field is replaced and marks the headers
\* changed, a new one is prepended.
setitem(h, item) ==
    IF contains(h, item[1])
    THEN [h EXCEPT !.v = SelectSeq(h.v, LAMBDA it : it[1] # item[1]) \o <<item>>,
                   !.changed = TRUE]
    ELSE prepend(h, item)

have_changed(h, ignore_prepends) ==
    h.changed \/ (h.num_prepends > 0 /\ ~ignore_prepends)

\* MimeHeaders.to_stream(out, prepends_only): the lines written.
headers_to_stream(h, prepends_only) ==
    LET k == IF prepends_only /\ h.num_prepends < Len(h.v) THEN h.num_prepends ELSE Len(h.v)
    IN [i \in 1..k |-> Header("hdr", h.v[i])]

\* MimeHeaders.from_stream(stream) (part.py:68) with the stream at offset start:
\* the header lines up to the blank line.  bad: the parser raises DecodingError.
from_stream(buf, start) ==
    LET isHeader(j) == buf[j][1] \in {"hdr", "rawhdr", "badhdr"}
        stop == CHOOSE j \in (start + 1)..(Len(buf) + 1) :
                    /\ j = Len(buf) + 1 \/ ~isHeader(j)
                    /\ \A k \in (start + 1)..(j - 1) : isHeader(k)
    IN [bad |-> \E j \in (start + 1)..(stop - 1) : buf[j][1] = "badhdr",
        items |-> [i \in 1..(stop - start - 1) |->
                      <<buf[start + i][2], buf[start + i][3], buf[start + i][4]>>],
        tell |-> IF stop <= Len(buf) THEN stop ELSE Len(buf)]

\* part.py:24  CTE = WithParams('7bit', {})
CTE == <<"Content-Transfer-Encoding", "7bit", "">>

\* -------------------------------------------------------------- containers
\* _body = None
None_body == <<-1>>

\* part.py:29-40
Stream(content_type, start, end) ==
    [kind |-> "Stream", content_type |-> content_type, start |-> start, end |-> end,
     _headers |-> None_headers, _body_start |-> -1, _body |-> None_body,
     _body_changed |-> FALSE]

\* part.py:151-187 for a text body without disposition or file name; the headers
\* and the body are attributes of the container.
Body(content_type, body) ==
    LET charset == IF \A i \in 1..Len(body) : body[i] < 128 THEN "ascii" ELSE "utf-8"
        ctype == [content_type EXCEPT !.charset = charset]
        h0 == setitem(MimeHeaders(<<>>), <<"MIME-Version", "1.0", "">>)
        h1 == setitem(h0, <<"Content-Type", ctype.main \o "/" \o ctype.sub, charset>>)
    IN [kind |-> "Body", content_type |-> ctype, start |-> 0, end |-> -1,
        _headers |-> h1, _body_start |-> -1, _body |-> body, _body_changed |-> TRUE]

\* part.py:205-210
Part(ctype) ==
    LET h0 == setitem(MimeHeaders(<<>>),
                      <<"Content-Type", ctype.main \o "/" \o ctype.sub, ctype.charset>>)
        h1 == setitem(h0, <<"MIME-Version", "1.0", "">>)
    IN [kind |-> "Part", content_type |-> ctype, start |-> 0, end |-> -1,
        _headers |-> h1, _body_start |-> -1, _body |-> None_body, _body_changed |-> TRUE]

\* A node identifier that no MimePart uses yet.
NoContainer ==
    [kind |-> "None", content_type |-> ContentType("", "", "", ""), start |-> 0,
     end |-> -1, _headers |-> None_headers, _body_start |-> -1, _body |-> None_body,
     _body_changed |-> FALSE]

\* ------------------------------------------------------------------- state
VARIABLES
    PY3,          \* six.PY3
    string,       \* Stream.string / Stream.stream: the parsed buffer, as tokens
    _container,   \* MimePart._container of each node
    parts,        \* MimePart.parts of each node
    enclosed,     \* MimePart.enclosed of each node, 0 for None
    _is_root,     \* RichPartMixin._is_root of each node
    last,         \* the last operation: what it was given and what it returned
    hist,         \* what has been done to each node since it was parsed
    firstOut,     \* what the first serialization of each node wrote, and the calls
    nops,         \* operations so far
    dot,          \* the dot-stuffing specification: input and output
    walked        \* the traversal specification: the last walk

vars == <<PY3, string, _container, parts, enclosed, _is_root, last, hist, firstOut,
          nops, dot, walked>>

\* Node identifiers: three of a parsed message and those of the parts added later.
Nodes == 1..(3 + MaxFresh)
InTree(n) == _container[n].kind # "None"

\* ------------------------------------------------------- parsed messages
text_plain == ContentType("text", "plain", "", "")
text_latin1 == ContentType("text", "plain", "iso-8859-1", "")
text_utf8 == ContentType("text", "plain", "utf-8", "")
application_pdf == ContentType("application", "pdf", "", "")
multipart_mixed == ContentType("multipart", "mixed", "", "b1")
multipart_report == ContentType("multipart", "report", "", "b1")
message_rfc822 == ContentType("message", "rfc822", "", "")
delivery_status == ContentType("message", "delivery-status", "", "")

Subject0 == <<"rawhdr", "Subject", "s0", "", <<>> >>
CT(v) == <<"hdr", "Content-Type", v, "", <<>> >>
CTcs(v, cs) == <<"hdr", "Content-Type", v, cs, <<>> >>
Enc(v) == <<"hdr", "Content-Transfer-Encoding", v, "", <<>> >>
Boundary == get_boundary_line(multipart_mixed, FALSE)
Final == get_boundary_line(multipart_mixed, TRUE)

\* What the top-level parser hands over: the buffer and, for each node, its
\* content type, its offsets (end inclusive), its children and its enclosed node.
Leaf(ctype, start, end) == [ctype |-> ctype, start |-> start, end |-> end,
                            parts |-> <<>>, enclosed |-> 0]
Top(ctype, end, children) == [ctype |-> ctype, start |-> 0, end |-> end,
                              parts |-> children, enclosed |-> 0]

\* "hi" as text/plain in iso-8859-1, 7bit.
SingleText ==
    [string |-> <<Subject0, CTcs("text/plain", "iso-8859-1"), _CRLF>>
                \o BodyToken(<<104, 105>>),
     nodes |-> <<Leaf(text_latin1, 0, 3)>>]

\* A base64 attachment whose padding is missing ("YWF").
SingleBase64 ==
    [string |-> <<Subject0, CT("application/pdf"), Enc("base64"), _CRLF>>
                \o BodyToken(<<89, 87, 70>>),
     nodes |-> <<Leaf(application_pdf, 0, 4)>>]

\* multipart/mixed: text/plain and a base64 attachment ("YWJj").
Mixed ==
    [string |-> <<Subject0, CT("multipart/mixed"), _CRLF, Boundary, _CRLF,
                  CT("text/plain"), _CRLF>> \o BodyToken(<<104, 105>>)
                \o <<_CRLF, Boundary, _CRLF,
                     CT("application/pdf"), Enc("base64"), _CRLF>>
                \o BodyToken(<<89, 87, 74, 106>>) \o <<_CRLF, Final, _CRLF>>,
     nodes |-> <<Top(multipart_mixed, 17, <<2, 3>>),
                 Leaf(text_plain, 5, 7), Leaf(application_pdf, 11, 14)>>]

\* multipart/mixed: one message/rfc822 part enclosing a quoted-printable utf-8
\* text ("a=3Db").
Enclosing ==
    [string |-> <<CT("multipart/mixed"), _CRLF, Boundary, _CRLF,
                  CT("message/rfc822"), _CRLF,
                  Subject0, CTcs("text/plain", "utf-8"), Enc("quoted-printable"), _CRLF>>
                \o BodyToken(<<97, 61, 51, 68, 98>>) \o <<_CRLF, Final, _CRLF>>,
     nodes |-> <<Top(multipart_mixed, 13, <<2>>),
                 [ctype |-> message_rfc822, start |-> 4, end |-> 10,
                  parts |-> <<>>, enclosed |-> 3],
                 Leaf(text_utf8, 6, 10)>>]

\* multipart/report: a text part and a message/delivery-status part.
Report ==
    [string |-> <<Subject0, CT("multipart/report"), _CRLF, Boundary, _CRLF,
                  CT("text/plain"), _CRLF>> \o BodyToken(<<104, 105>>)
                \o <<_CRLF, Boundary, _CRLF,
                     Subject0, CT("message/delivery-status"), _CRLF>>
                \o BodyToken(<<53, 46, 48>>) \o <<_CRLF, Final, _CRLF>>,
     nodes |-> <<Top(multipart_report, 17, <<2, 3>>),
                 Leaf(text_plain, 5, 7), Leaf(delivery_status, 11, 14)>>]

\* multipart/mixed whose first part has a header line the header parser rejects.
BadHeader ==
    [string |-> <<Subject0, CT("multipart/mixed"), _CRLF, Boundary, _CRLF,
                  <<"badhdr", "X-Bad", "", "", <<>> >>, CT("text/plain"), _CRLF>>
                \o BodyToken(<<104, 105>>)
                \o <<_CRLF, Boundary, _CRLF, CT("text/plain"), _CRLF>>
                \o BodyToken(<<46, 120>>) \o <<_CRLF, Final, _CRLF>>,
     nodes |-> <<Top(multipart_mixed, 17, <<2, 3>>),
                 Leaf(text_plain, 5, 8), Leaf(text_plain, 12, 14)>>]

Messages == {SingleText, SingleBase64, Mixed, Enclosing, Report, BadHeader}

NoOp == [op |-> "", node |-> 0, exc |-> "", out |-> <<>>, before |-> <<>>,
         fast |-> FALSE, enc |-> {}, fb |-> {}, pre |-> <<>>]
NoHist == [edited |-> FALSE, removed |-> FALSE, added |-> <<>>, written |-> FALSE,
           differed |-> FALSE, grown |-> FALSE]
NotYet == [out |-> <<>>, calls |-> 0]
NoDot == [raw |-> <<>>, qp |-> <<>>, fixed |-> <<>>]
NoWalk == [node |-> 0, with_self |-> FALSE, skip_enclosed |-> FALSE, result |-> <<>>]

\* The tree of MimeParts over Stream containers that the parser builds.
Parsed(msg) ==
    /\ string = msg.string
    /\ _container = [n \in Nodes |->
                        IF n <= Len(msg.nodes)
                        THEN Stream(msg.nodes[n].ctype, msg.nodes[n].start, msg.nodes[n].end)
                        ELSE NoContainer]
    /\ parts = [n \in Nodes |-> IF n <= Len(msg.nodes) THEN msg.nodes[n].parts ELSE <<>>]
    /\ enclosed = [n \in Nodes |-> IF n <= Len(msg.nodes) THEN msg.nodes[n].enclosed ELSE 0]
    /\ _is_root = [n \in Nodes |-> n = 1]

Init ==
    /\ PY3 \in BOOLEAN
    /\ \E msg \in Messages : Parsed(msg)
    /\ last = NoOp
    /\ hist = [n \in Nodes |-> NoHist]
    /\ firstOut = [n \in Nodes |-> NotYet]
    /\ nops = 0
    /\ dot = NoDot
    /\ walked = NoWalk

\* ------------------------------------------------- the running operation
\* An operation runs on a record m: the containers as it has changed them (c),
\* the sink (out, pos, as io.StringIO keeps them), the exception that is
\* propagating ("" for none), the nodes whose body went through the encode
\* pipeline (enc) and the nodes written from their original bytes after a
\* DecodingError, each with the sink as it was when the node began and as the
\* handler left it (fb).
Machine(sink) ==
    [c |-> _container, out |-> sink, pos |-> Len(sink), exc |-> "", enc |-> {}, fb |-> {}]

\* StringIO.write at the current position
write(m, s) ==
    IF m.exc # "" THEN m
    ELSE [m EXCEPT !.out = Slice(m.out, 0, m.pos) \o s
                           \o Slice(m.out, m.pos + Len(s), Len(m.out)),
                   !.pos = m.pos + Len(s)]

seek(m, p) == [m EXCEPT !.pos = p]

\* part.py:65-69
_load_headers(m, n) ==
    LET r == from_stream(string, m.c[n].start)
    IN IF m.exc # "" \/ m.c[n].kind # "Stream" \/ m.c[n]._headers.loaded THEN m
       ELSE IF r.bad THEN [m EXCEPT !.exc = "DecodingError"]
       ELSE [m EXCEPT !.c[n]._headers = MimeHeaders(r.items), !.c[n]._body_start = r.tell]

\* part.py:56-58
read_message(c) == Slice(string, c.start, c.end + 1)

\* part.py:60-63, once the headers are loaded
read_body(c) == Slice(string, c._body_start, c.end + 1)

\* part.py:71-78.  A failure of the base64 decoder is binascii.Error.
_load_body(m, n) ==
    LET m1 == _load_headers(m, n)
        c == m1.c[n]
        r == _decode_body(c.content_type,
                          get(c._headers, "Content-Transfer-Encoding", CTE)[2],
                          BytesOf(read_body(c)))
    IN IF m.exc # "" \/ m.c[n].kind # "Stream" \/ m.c[n]._body # None_body THEN m
       ELSE IF m1.exc # "" THEN m1
       ELSE IF r.ok THEN [m1 EXCEPT !.c[n]._body = r.v]
       ELSE [m1 EXCEPT !.exc = "binascii.Error"]

\* part.py:80-83
_set_body(c, value) ==
    IF value # c._body THEN [c EXCEPT !._body = value, !._body_changed = TRUE] ELSE c

\* A writer of every header line, prepended or not.
_stream_all_headers(c) ==
    IF c.kind = "Stream" /\ ~c._headers.loaded THEN <<>>
    ELSE headers_to_stream(c._headers, FALSE)

\* part.py:85-87, 199-200, 222-223: the lines written
_stream_prepended_headers(c) ==
    IF c.kind = "Stream" /\ ~(c._headers.loaded /\ Len(c._headers.v) > 0) THEN <<>>
    ELSE headers_to_stream(c._headers, TRUE)

\* A change test that takes loaded headers for changed ones.
headers_loaded(c, ignore_prepends) == c.kind # "Stream" \/ c._headers.loaded

\* part.py:89-90, 193-194, 216-217
headers_changed(c, ignore_prepends) ==
    IF c.kind = "Stream"
    THEN c._headers.loaded /\ have_changed(c._headers, ignore_prepends)
    ELSE TRUE

\* part.py:92-93, 196-197, 219-220
body_changed(c) == IF c.kind = "Stream" THEN c._body_changed ELSE TRUE

\* A was_changed that hands its own flag down.
same_flag(ignore_prepends) == ignore_prepends

\* part.py:517, 520: p.was_changed() and self.enclosed.was_changed() are called
\* without the flag, so with its default (part.py:507).
children_flag(ignore_prepends) == FALSE

\* part.py:507-520 on the containers cs; the None of a node that is neither
\* singlepart, multipart nor message container is FALSE.
RECURSIVE was_changed(_, _, _)
was_changed(cs, n, ignore_prepends) ==
    IF headers_changed(cs[n], ignore_prepends) THEN TRUE
    ELSE IF is_singlepart(cs[n].content_type) THEN body_changed(cs[n])
    ELSE IF is_multipart(cs[n].content_type)
    THEN \E i \in 1..Len(parts[n]) :
            was_changed(cs, parts[n][i], children_flag(ignore_prepends))
    ELSE IF is_message_container(cs[n].content_type)
    THEN was_changed(cs, enclosed[n], children_flag(ignore_prepends))
    ELSE FALSE

\* part.py:343-344
is_attachment(h) == get(h, "Content-Disposition", <<"Content-Disposition", "", "">>)[2] = "attachment"

\* part.py:606-625: [m, charset, encoding, body]
_encode_body(m, n) ==
    LET raised(m2) == [m |-> m2, charset |-> "", encoding |-> "", body |-> <<>>]
        \* part.py:624-625
        transfer(m2, charset, encoding, r) ==
            IF ~r.ok THEN raised([m2 EXCEPT !.exc = "UnicodeDecodeError"])
            ELSE [m |-> [m2 EXCEPT !.enc = m2.enc \cup {n}],
                  charset |-> charset, encoding |-> encoding, body |-> r.v]
        encode(m2, charset, encoding, body) ==
            transfer(m2, charset, encoding, _encode_transfer_encoding(PY3, encoding, body))
        \* part.py:612-619
        text(m2, c, content_encoding, ec) ==
            encode(m2, ec.charset,
                   IF is_attachment(c._headers) THEN "base64"
                   ELSE _choose_text_encoding(ec.charset, content_encoding, ec.text),
                   ec.text)
        \* part.py:607-611, 620-621
        loaded(m2, c, content_encoding) ==
            IF m2.exc # "" THEN raised(m2)
            ELSE IF c.content_type.main = "text"
            THEN text(m2, c, content_encoding,
                      _encode_charset(get_charset(c.content_type), c._body))
            ELSE encode(m2, get_charset(c.content_type), "base64", c._body)
        body(m2) ==
            loaded(m2, m2.c[n], get(m2.c[n]._headers, "Content-Transfer-Encoding", CTE)[2])
    IN body(_load_body(_load_headers(m, n), n))

\* part.py:466-473
set_charset(m, n, value) ==
    LET c == m.c[n]
        h0 == IF contains(c._headers, "Content-Type") THEN c._headers
              ELSE setitem(c._headers, <<"Content-Type", "text/plain", "">>)
        v == [i \in 1..Len(h0.v) |->
                 IF h0.v[i][1] = "Content-Type"
                 THEN <<h0.v[i][1], h0.v[i][2], value>> ELSE h0.v[i]]
    IN [m EXCEPT !.c[n].content_type.charset = value,
                 !.c[n]._headers = [h0 EXCEPT !.v = v, !.changed = TRUE]]

\* part.py:445-447
set_content_encoding(m, n, value) ==
    [m EXCEPT !.c[n]._headers =
                  setitem(m.c[n]._headers, <<"Content-Transfer-Encoding", value, "">>)]

\* ---------------------------------------------------------------- serializer
\* A line terminator before every boundary line, the first included.
_always_crlf(index) == <<_CRLF>>

\* part.py:563-564: what goes before the boundary line of the child at index.
_boundary_prefix(index) == IF index # 0 THEN <<_CRLF>> ELSE <<>>

\* part.py:566: the end of a multipart body.
_terminal(ctype) == <<_CRLF, get_boundary_line(ctype, TRUE), _CRLF>>

\* part.py:503-505: the handler of DecodingError.
_fallback(m, original_position, n) ==
    LET back == seek([m EXCEPT !.exc = ""], original_position)
    IN write(back, read_message(back.c[n]))

\* part.py:549-555: the headers, the blank line and the body of a singlepart node.
_write_singlepart(m, n, body) ==
    IF Len(m.c[n]._headers.v) > 0
    THEN write(write(write(m, headers_to_stream(m.c[n]._headers, FALSE)), <<_CRLF>>), body)
    ELSE IF _is_root[n] THEN [m EXCEPT !.exc = "EncodingError"]
    ELSE write(write(m, <<_CRLF>>), body)

RECURSIVE to_stream(_, _)
RECURSIVE _to_stream_when_changed(_, _)
RECURSIVE _stream_parts(_, _, _)

\* part.py:492-505
to_stream(m, n) ==
    IF m.exc # "" THEN m
    ELSE IF ~was_changed(m.c, n, TRUE)
    THEN write(write(m, _stream_prepended_headers(m.c[n])), read_message(m.c[n]))
    ELSE LET original_position == m.pos
             handled(r, h) ==
                 [h EXCEPT !.fb = r.fb \cup {[node |-> n, began |-> m.out, ended |-> h.out]}]
             try(r) ==
                 IF r.exc = "DecodingError"
                 THEN handled(r, _fallback(r, original_position, n))
                 ELSE r
         IN try(_to_stream_when_changed(m, n))

\* part.py:562-565: the children from position i (index i - 1) on.
_stream_parts(m, n, i) ==
    IF m.exc # "" \/ i > Len(parts[n]) THEN m
    ELSE LET boundary == get_boundary_line(m.c[n].content_type, FALSE)
             m1 == write(m, _boundary_prefix(i - 1) \o <<boundary, _CRLF>>)
         IN _stream_parts(to_stream(m1, parts[n][i]), n, i + 1)

\* part.py:534-569
_to_stream_when_changed(m, n) ==
    LET ctype == m.c[n].content_type
        \* part.py:541-544, 548-555
        encoded(e) ==
            IF e.m.exc # "" THEN e.m
            ELSE _write_singlepart(
                     set_content_encoding(
                         IF e.charset # "" THEN set_charset(e.m, n, e.charset) ELSE e.m,
                         n, e.encoding),
                     n, BodyToken(e.body))
        \* part.py:545-555
        as_read(m1) ==
            IF m1.exc # "" THEN m1 ELSE _write_singlepart(m1, n, read_body(m1.c[n]))
        \* part.py:560-569
        composite(m1, m2) ==
            IF m1.exc # "" THEN m1
            ELSE IF is_multipart(ctype) THEN write(_stream_parts(m2, n, 1), _terminal(ctype))
            ELSE IF is_message_container(ctype) THEN to_stream(m2, enclosed[n])
            ELSE m2
        \* part.py:557-558
        headed(m1) ==
            composite(m1, write(write(m1, headers_to_stream(m1.c[n]._headers, FALSE)),
                                <<_CRLF>>))
    IN
    IF is_singlepart(ctype)
    THEN IF body_changed(m.c[n])
         THEN encoded(_encode_body(m, n))
         ELSE as_read(_load_headers(m, n))
    ELSE headed(_load_headers(m, n))

\* part.py:475-490: [m, fast]
to_string(m, n) ==
    IF _is_root[n] /\ ~was_changed(m.c, n, TRUE)
    THEN [m |-> write(m, _stream_prepended_headers(m.c[n]) \o string), fast |-> TRUE]
    ELSE [m |-> to_stream(m, n), fast |-> FALSE]

\* ------------------------------------------------------------------ actions
\* The record of an operation that ran on m.  pre is the containers a
\* serialization started from.
Ran(op, n, m, before, fast, serial) ==
    [op |-> op, node |-> n, exc |-> m.exc, out |-> IF serial THEN m.out ELSE <<>>,
     before |-> before, fast |-> fast, enc |-> m.enc, fb |-> m.fb,
     pre |-> IF serial THEN _container ELSE <<>>]

Frame == UNCHANGED <<PY3, string, dot, walked>>

\* The decoded body of the bytes node n was parsed from.
DecodedOriginal(n) ==
    LET c == _container[n]
        r == from_stream(string, c.start)
    IN _decode_body(c.content_type,
                    get(MimeHeaders(r.items), "Content-Transfer-Encoding", CTE)[2],
                    BytesOf(Slice(string, r.tell, c.end + 1))).v

\* The decoded body of node n as a read returns it now (part.py:46-49, 71-78): the
\* body held, or the decoded original when none is held.
CurrentBody(n) ==
    IF _container[n].kind = "Stream" /\ _container[n]._body = None_body
    THEN DecodedOriginal(n)
    ELSE _container[n]._body

\* The values a caller writes to a body: None, ".e-acute", and the decoded original.
BodyValues(n) ==
    {None_body, <<46, 233>>}
    \cup (IF _container[n].kind = "Stream" THEN {DecodedOriginal(n)} ELSE {})

HeaderNames == {"Subject", "X-New"}
AllNames == {"Subject", "X-New", "Content-Type", "Content-Transfer-Encoding",
             "MIME-Version", "Content-Disposition"}

\* part.headers (part.py:419-424)
ReadHeaders(n) ==
    /\ nops < MaxOps
    /\ InTree(n)
    /\ LET m == _load_headers(Machine(<<>>), n)
       IN /\ _container' = m.c
          /\ last' = Ran("headers", n, m, <<>>, FALSE, FALSE)
    /\ nops' = nops + 1
    /\ UNCHANGED <<parts, enclosed, _is_root, hist, firstOut>>
    /\ Frame

\* part.body (part.py:449-454)
ReadBody(n) ==
    /\ nops < MaxOps
    /\ InTree(n)
    /\ is_singlepart(_container[n].content_type)
        \/ is_delivery_status(_container[n].content_type)
    /\ LET m == _load_body(Machine(<<>>), n)
       IN /\ _container' = m.c
          /\ last' = Ran("body", n, m, <<>>, FALSE, FALSE)
    /\ nops' = nops + 1
    /\ UNCHANGED <<parts, enclosed, _is_root, hist, firstOut>>
    /\ Frame

\* part.body = value (part.py:456-460)
SetBody(n, value) ==
    /\ nops < MaxOps
    /\ InTree(n)
    /\ is_singlepart(_container[n].content_type)
        \/ is_delivery_status(_container[n].content_type)
    /\ _container' = [_container EXCEPT ![n] = _set_body(_container[n], value)]
    /\ last' = Ran("set_body", n, Machine(<<>>), <<>>, FALSE, FALSE)
    /\ hist' = [hist EXCEPT ![n].written = TRUE,
                             ![n].differed = @ \/ value # CurrentBody(n)]
    /\ nops' = nops + 1
    /\ UNCHANGED <<parts, enclosed, _is_root, firstOut>>
    /\ Frame

\* part.headers[name] = value (as part.py:240, 447 do)
SetHeader(n, name, value) ==
    /\ nops < MaxOps
    /\ InTree(n)
    /\ LET m == _load_headers(Machine(<<>>), n)
           h == m.c[n]._headers
           existing == contains(h, name)
       IN /\ m.exc = "" /\ ~existing => Len(hist[n].added) < MaxPrepends
          /\ _container' = IF m.exc # "" THEN m.c
                           ELSE [m.c EXCEPT ![n]._headers = setitem(h, <<name, value, "">>)]
          /\ last' = Ran("set_header", n, m, <<>>, FALSE, FALSE)
          /\ hist' = IF m.exc # "" THEN hist
                     ELSE IF existing THEN [hist EXCEPT ![n].edited = TRUE]
                     ELSE [hist EXCEPT ![n].added = <<Header("hdr", <<name, value, "">>)>>
                                                    \o hist[n].added]
    /\ nops' = nops + 1
    /\ UNCHANGED <<parts, enclosed, _is_root, firstOut>>
    /\ Frame

\* part.py:370-376
RemoveHeaders(n, header_names) ==
    /\ nops < MaxOps
    /\ InTree(n)
    /\ LET m == _load_headers(Machine(<<>>), n)
           h == m.c[n]._headers
           present == {name \in header_names : contains(h, name)}
           left == [h EXCEPT !.v = SelectSeq(h.v, LAMBDA it : it[1] \notin present),
                             !.changed = TRUE]
       IN /\ _container' = IF m.exc # "" \/ present = {} THEN m.c
                           ELSE [m.c EXCEPT ![n]._headers = left]
          /\ last' = Ran("remove_headers", n, m, <<>>, FALSE, FALSE)
          /\ hist' = IF m.exc # "" \/ present = {} THEN hist
                     ELSE [hist EXCEPT ![n].removed = TRUE]
    /\ nops' = nops + 1
    /\ UNCHANGED <<parts, enclosed, _is_root, firstOut>>
    /\ Frame

\* part.py:525-528 with one new text part ("x") over a Body container, made by
\* MimePart(Body(...)) (part.py:399-403); the parent is a multipart node.
DoAppend(p) ==
    /\ nops < MaxOps
    /\ InTree(p)
    /\ is_multipart(_container[p].content_type)
    /\ \E f \in Nodes :
        /\ ~InTree(f)
        /\ \A g \in Nodes : g < f => InTree(g)
        /\ _container' = [_container EXCEPT ![f] = Body(text_plain, <<120>>)]
        /\ parts' = [parts EXCEPT ![p] = Append(parts[p], f)]
        /\ _is_root' = [_is_root EXCEPT ![f] = FALSE]
    /\ last' = Ran("append", p, Machine(<<>>), <<>>, FALSE, FALSE)
    /\ hist' = [hist EXCEPT ![p].grown = TRUE]
    /\ nops' = nops + 1
    /\ UNCHANGED <<enclosed, firstOut>>
    /\ Frame

\* The first output of a node is kept, and the calls that returned are counted.
Keep(n, m, written) ==
    IF m.exc # "" THEN firstOut
    ELSE IF firstOut[n].calls = 0 THEN [firstOut EXCEPT ![n] = [out |-> written, calls |-> 1]]
    ELSE [firstOut EXCEPT ![n].calls = firstOut[n].calls + 1]

\* part.py:475-490
DoToString(n) ==
    /\ nops < MaxOps
    /\ InTree(n)
    /\ LET returned(r) ==
               /\ _container' = r.m.c
               /\ last' = Ran("to_string", n, r.m, <<>>, r.fast, TRUE)
               /\ firstOut' = Keep(n, r.m, r.m.out)
       IN returned(to_string(Machine(<<>>), n))
    /\ nops' = nops + 1
    /\ UNCHANGED <<parts, enclosed, _is_root, hist>>
    /\ Frame

\* part.py:492-505, on a sink that holds an envelope line already.
DoToStream(n) ==
    /\ nops < MaxOps
    /\ InTree(n)
    /\ LET returned(m) ==
               /\ _container' = m.c
               /\ last' = Ran("to_stream", n, m, <<Envelope>>, FALSE, TRUE)
               /\ firstOut' = Keep(n, m, Tail(m.out))
       IN returned(to_stream(Machine(<<Envelope>>), n))
    /\ nops' = nops + 1
    /\ UNCHANGED <<parts, enclosed, _is_root, hist>>
    /\ Frame

Next ==
    \/ \E n \in Nodes : ReadHeaders(n)
    \/ \E n \in Nodes : ReadBody(n)
    \/ \E n \in Nodes : \E value \in BodyValues(n) : SetBody(n, value)
    \/ \E n \in Nodes : \E name \in HeaderNames : SetHeader(n, name, "s1")
    \/ \E n \in Nodes : RemoveHeaders(n, {"Subject"}) \/ RemoveHeaders(n, AllNames)
    \/ \E p \in Nodes : DoAppend(p)
    \/ \E n \in Nodes : DoToString(n)
    \/ \E n \in Nodes : DoToStream(n)

Spec == Init /\ [][Next]_vars
\* ------------------------------------- the dot-stuffing specification
\* The texts given to the quoted-printable branch of _encode_transfer_encoding
\* (part.py:641-642, 658-659): a line of a's, begun by a dot or not, with a window
\* of up to MaxWindow varied bytes placed near the middle of the line or near its
\* end, and a second line or none.
WindowBytes == {DOT, SP, TAB, EQ, 233}
Windows == UNION {[1..k -> WindowBytes] : k \in 0..MaxWindow}
Offsets == {34 + k : k \in 0..MaxShift} \cup {72 + k : k \in 0..MaxShift}
Rests == {0} \cup {33 + k : k \in 0..MaxShift}
Leads == {<<DOT>>, <<97>>}
Ends == {<<>>, <<LF, DOT, 97>>}
DotInput(lead, a, w, b, e) == lead \o Fill(97, a) \o w \o Fill(97, b) \o e

NoTree ==
    /\ string = <<>>
    /\ _container = [n \in Nodes |-> NoContainer]
    /\ parts = [n \in Nodes |-> <<>>]
    /\ enclosed = [n \in Nodes |-> 0]
    /\ _is_root = [n \in Nodes |-> FALSE]
    /\ last = NoOp
    /\ hist = [n \in Nodes |-> NoHist]
    /\ firstOut = [n \in Nodes |-> NotYet]
    /\ nops = 0

InitDot ==
    /\ PY3 \in BOOLEAN
    /\ NoTree
    /\ dot = NoDot
    /\ walked = NoWalk

\* quopri.encodestring(body, quotetabs=False) (part.py:641, 658)
DotEncode(body) ==
    /\ dot = NoDot
    /\ dot' = [raw |-> body, qp |-> encodestring(body), fixed |-> <<>>]
    /\ UNCHANGED <<PY3, string, _container, parts, enclosed, _is_root, last, hist,
                   firstOut, nops, walked>>

\* fix_leading_dot(body) (part.py:642, 659)
DotFix ==
    /\ dot # NoDot
    /\ dot.fixed = <<>>
    /\ dot' = [dot EXCEPT !.fixed = fix_leading_dot(dot.qp, PY3)]
    /\ UNCHANGED <<PY3, string, _container, parts, enclosed, _is_root, last, hist,
                   firstOut, nops, walked>>

NextDot ==
    \/ \E lead \in Leads, a \in Offsets, w \in Windows, b \in Rests, e \in Ends :
          DotEncode(DotInput(lead, a, w, b, e))
    \/ DotFix

SpecDot == InitDot /\ [][NextDot]_vars

\* ----------------------------------------- the traversal specification
\* A walk of the children that never skips.
_never_skip(skip_enclosed) == FALSE

\* part.py:335: what walk passes to the walk of a child.
_child_skip(skip_enclosed) == skip_enclosed

\* What a generator has yielded when the one it draws from raised: -1 marks the
\* exception, nothing follows it.
Cat(a, b) == IF \E i \in 1..Len(a) : a[i] = -1 THEN a ELSE a \o b

RECURSIVE walk(_, _, _)
RECURSIVE walk_parts(_, _, _)

\* part.py:321-341: the nodes yielded, in order.  An enclosed of None is yielded
\* as 0 and the walk of it raises AttributeError.
walk(n, with_self, skip_enclosed) ==
    LET ctype == _container[n].content_type
        self == IF with_self THEN <<n>> ELSE <<>>
    IN IF is_multipart(ctype) THEN Cat(self, walk_parts(n, 1, skip_enclosed))
       ELSE IF is_message_container(ctype) /\ ~skip_enclosed
       THEN IF enclosed[n] = 0 THEN self \o <<0, -1>>
            ELSE Cat(self \o <<enclosed[n]>>, walk(enclosed[n], FALSE, FALSE))
       ELSE self

\* part.py:333-336: the children from position i on.
walk_parts(n, i, skip_enclosed) ==
    IF i > Len(parts[n]) THEN <<>>
    ELSE Cat(Cat(<<parts[n][i]>>, walk(parts[n][i], FALSE, _child_skip(skip_enclosed))),
             walk_parts(n, i + 1, skip_enclosed))

\* Node identifiers of the trees walked.
WalkNodes == 1..MaxTree

\* The containers of the parts an application builds.
Built == {Body(text_plain, <<120>>), Part(multipart_mixed), Part(message_rfc822)}

Fresh(f) == ~InTree(f) /\ \A g \in WalkNodes : g < f => InTree(g)

\* MimePart(container, is_root=True) (part.py:399-403)
InitWalk ==
    /\ PY3 = TRUE
    /\ string = <<>>
    /\ \E container \in Built :
          _container = [n \in WalkNodes |-> IF n = 1 THEN container ELSE NoContainer]
    /\ parts = [n \in WalkNodes |-> <<>>]
    /\ enclosed = [n \in WalkNodes |-> 0]
    /\ _is_root = [n \in WalkNodes |-> n = 1]
    /\ last = NoOp
    /\ hist = [n \in WalkNodes |-> NoHist]
    /\ firstOut = [n \in WalkNodes |-> NotYet]
    /\ nops = 0
    /\ dot = NoDot
    /\ walked = NoWalk

\* p.append(MimePart(container)) (part.py:525-528, 399-403)
WalkAppend(p, container) ==
    /\ InTree(p)
    /\ \E f \in WalkNodes :
        /\ Fresh(f)
        /\ _container' = [_container EXCEPT ![f] = container]
        /\ parts' = [parts EXCEPT ![p] = parts[p] \o <<f>>]
        /\ _is_root' = [_is_root EXCEPT ![f] = FALSE]
    /\ walked' = NoWalk
    /\ UNCHANGED <<PY3, string, enclosed, last, hist, firstOut, nops, dot>>

\* p.enclose(MimePart(container)) (part.py:530-532, 399-403)
WalkEnclose(p, container) ==
    /\ InTree(p)
    /\ \E f \in WalkNodes :
        /\ Fresh(f)
        /\ _container' = [_container EXCEPT ![f] = container]
        /\ enclosed' = [enclosed EXCEPT ![p] = f]
        /\ _is_root' = [_is_root EXCEPT ![f] = FALSE]
    /\ walked' = NoWalk
    /\ UNCHANGED <<PY3, string, parts, last, hist, firstOut, nops, dot>>

\* list(message.walk(with_self, skip_enclosed)) (part.py:321-341) on the root of
\* the tree.
DoWalk(n, with_self, skip_enclosed) ==
    /\ _is_root[n]
    /\ walked' = [node |-> n, with_self |-> with_self, skip_enclosed |-> skip_enclosed,
                  result |-> walk(n, with_self, skip_enclosed)]
    /\ UNCHANGED <<PY3, string, _container, parts, enclosed, _is_root, last, hist,
                   firstOut, nops, dot>>

NextWalk ==
    \/ \E p \in WalkNodes, container \in Built : WalkAppend(p, container)
    \/ \E p \in WalkNodes, container \in Built : WalkEnclose(p, container)
    \/ \E n \in WalkNodes, with_self \in BOOLEAN, skip_enclosed \in BOOLEAN :
          DoWalk(n, with_self, skip_enclosed)

SpecWalk == InitWalk /\ [][NextWalk]_vars

\* ------------------------------------------------ the forest specification
\* The nodes of the tree under n, n included.
RECURSIVE Sub(_)
Sub(n) ==
    {n} \cup UNION {Sub(parts[n][i]) : i \in 1..Len(parts[n])}
        \cup (IF enclosed[n] # 0 THEN Sub(enclosed[n]) ELSE {})

\* Node m is among the parts of a node or is the enclosed message of one.
Attached(m) ==
    \E q \in WalkNodes :
        enclosed[q] = m \/ \E i \in 1..Len(parts[q]) : parts[q][i] = m

\* A set_root that leaves the flag set.
_keep_root(val) == TRUE

\* part.py:318-319: the value set_root(val) stores.
set_root(val) == val

\* No MimePart exists yet.
InitRoot ==
    /\ PY3 = TRUE
    /\ string = <<>>
    /\ _container = [n \in WalkNodes |-> NoContainer]
    /\ parts = [n \in WalkNodes |-> <<>>]
    /\ enclosed = [n \in WalkNodes |-> 0]
    /\ _is_root = [n \in WalkNodes |-> FALSE]
    /\ last = NoOp
    /\ hist = [n \in WalkNodes |-> NoHist]
    /\ firstOut = [n \in WalkNodes |-> NotYet]
    /\ nops = 0
    /\ dot = NoDot
    /\ walked = NoWalk

\* MimePart(container, is_root=is_root) (part.py:399-403, 228-229); is_root is
\* False when the caller leaves it out.
MimePart(container, is_root) ==
    /\ \E f \in 1..MaxParts :
        /\ Fresh(f)
        /\ _container' = [_container EXCEPT ![f] = container]
        /\ _is_root' = [_is_root EXCEPT ![f] = is_root]
    /\ UNCHANGED <<PY3, string, parts, enclosed, last, hist, firstOut, nops, dot, walked>>

\* p.append(m) (part.py:525-528) with one message, the top of another tree.
append(p, m) ==
    /\ InTree(p) /\ InTree(m)
    /\ ~Attached(m) /\ p \notin Sub(m)
    /\ parts' = [parts EXCEPT ![p] = parts[p] \o <<m>>]
    /\ _is_root' = [_is_root EXCEPT ![m] = set_root(FALSE)]
    /\ UNCHANGED <<PY3, string, _container, enclosed, last, hist, firstOut, nops, dot,
                   walked>>

\* p.enclose(message) (part.py:530-532), message the top of another tree.
enclose(p, message) ==
    /\ InTree(p) /\ InTree(message)
    /\ ~Attached(message) /\ p \notin Sub(message)
    /\ enclosed' = [enclosed EXCEPT ![p] = message]
    /\ _is_root' = [_is_root EXCEPT ![message] = set_root(FALSE)]
    /\ UNCHANGED <<PY3, string, _container, parts, last, hist, firstOut, nops, dot,
                   walked>>

NextRoot ==
    \/ \E container \in Built, is_root \in BOOLEAN : MimePart(container, is_root)
    \/ \E p \in WalkNodes, m \in WalkNodes : append(p, m)
    \/ \E p \in WalkNodes, message \in WalkNodes : enclose(p, message)

SpecRoot == InitRoot /\ [][NextRoot]_vars

\* ---------------------------------------------- the encoding specification
\* The content types, declared transfer encodings ("" for no header) and written
\* bodies of a parsed single part whose body is then mutated and serialized
\* (part.py:541-544, 606-625): "x", e-acute, and a line one short of and one at
\* max_line_len.
EncTypes == {text_plain, text_latin1, text_utf8, application_pdf}
Declared == {"", "7bit", "quoted-printable", "base64", "8bit", "binary"}
EncBodies == {<<120>>, <<233>>, Fill(97, max_line_len - 1), Fill(97, max_line_len)}

\* The message as the parser hands it over.
EncMessage(ctype, declared, attachment) ==
    LET head == <<CTcs(ctype.main \o "/" \o ctype.sub, ctype.charset)>>
                \o (IF declared # "" THEN <<Enc(declared)>> ELSE <<>>)
                \o (IF attachment
                    THEN << <<"hdr", "Content-Disposition", "attachment", "", <<>> >> >>
                    ELSE <<>>)
    IN [string |-> head \o <<_CRLF>> \o BodyToken(<<104, 105>>),
        nodes |-> <<Leaf(ctype, 0, Len(head) + 1)>>]

InitEnc ==
    /\ PY3 \in BOOLEAN
    /\ \E ctype \in EncTypes, declared \in Declared, attachment \in BOOLEAN :
          Parsed(EncMessage(ctype, declared, attachment))
    /\ last = NoOp
    /\ hist = [n \in Nodes |-> NoHist]
    /\ firstOut = [n \in Nodes |-> NotYet]
    /\ nops = 0
    /\ dot = NoDot
    /\ walked = NoWalk

NextEnc ==
    \/ \E value \in EncBodies : SetBody(1, value)
    \/ DoToString(1)

SpecEnc == InitEnc /\ [][NextEnc]_vars

\* ------------------------------------------------------------- properties
Serialized == last.op \in {"to_string", "to_stream"}

\* What the last serialization added to the sink.
Written == Slice(last.out, Len(last.before), Len(last.out))

\* The bytes node n was parsed from.
Original(n) == read_message(last.pre[n])

\* The node took the path of _to_stream_when_changed.
Regenerating == Serialized /\ was_changed(last.pre, last.node, TRUE)

Occurs(s, t) == \E i \in 0..(Len(s) - Len(t)) : SubSeq(s, i + 1, i + Len(t)) = t

Count(s, t) == Cardinality({i \in 1..Len(s) : s[i] = t})

NonHeader(s) == SelectSeq(s, LAMBDA t : t[1] \notin {"hdr", "rawhdr", "badhdr"})

\* Nothing but brand-new headers was given to the nodes of S, nothing at all to
\* the other nodes.
OnlyAdditionsAt(S) ==
    \A n \in DOMAIN hist :
        /\ ~hist[n].edited /\ ~hist[n].removed /\ ~hist[n].written /\ ~hist[n].grown
        /\ n \notin S => hist[n].added = <<>>

\* ---- C1
\* C1: to_string of a stream-backed root whose was_changed(ignore_prepends=True)
\* is false returns without error, by the fast path, exactly the headers that
\* were added to the root followed by the parsed buffer; with no header added
\* the result is the buffer itself.  Reads, lazy loads and additions of new
\* headers to the root leave was_changed(ignore_prepends=True) false.
C1_FastPath ==
    (/\ last.op = "to_string"
     /\ _is_root[last.node]
     /\ last.pre[last.node].kind = "Stream")
    => /\ OnlyAdditionsAt({last.node}) => ~was_changed(last.pre, last.node, TRUE)
       /\ ~was_changed(last.pre, last.node, TRUE)
            => /\ last.exc = ""
               /\ last.fast
               /\ last.out = hist[last.node].added \o string
               /\ hist[last.node].added = <<>> => last.out = string

\* A root with a header added and its headers and body loaded went the fast path.
C1_Witness ==
    /\ last.op = "to_string"
    /\ last.fast
    /\ hist[last.node].added # <<>>
    /\ last.pre[last.node]._headers.loaded
    /\ Len(last.out) = Len(string) + 1

\* ---- C2
\* C2: no serialization ends with a decode failure propagating to the caller
\* (DecodingError, the error of the base64 decoder, UnicodeDecodeError), and
\* every node whose regeneration failed left the sink holding what it held when
\* the node began followed by the node's original bytes.
C2_NeverAborts ==
    Serialized =>
        /\ last.exc \notin {"DecodingError", "binascii.Error", "UnicodeDecodeError"}
        /\ \A f \in last.fb : f.ended = f.began \o Original(f.node)

\* ---- C3
\* The unfolding of was_changed at node n under flag ip, the children and the
\* enclosed node being asked with the flag below.
Unfolds(n, ip, below) ==
    was_changed(_container, n, ip)
    <=> \/ headers_changed(_container[n], ip)
        \/ is_singlepart(_container[n].content_type) /\ body_changed(_container[n])
        \/ /\ is_multipart(_container[n].content_type)
           /\ \E i \in 1..Len(parts[n]) : was_changed(_container, parts[n][i], below)
        \/ /\ is_message_container(_container[n].content_type)
           /\ was_changed(_container, enclosed[n], below)

\* C3 (amended): was_changed(ignore_prepends) of a node is true exactly when its
\* own headers changed under that flag, or it is singlepart and its body changed,
\* or it is multipart and some child was_changed() with the default flag (false),
\* or it is a message container and its enclosed node was_changed() with the
\* default flag.  With ignore_prepends set, new headers added to the root alone
\* report false at the root; a new header added to any node below it reports true.
C3_WasChanged ==
    /\ \A n \in DOMAIN _container : \A ip \in BOOLEAN :
          InTree(n) => Unfolds(n, ip, FALSE)
    /\ \A r \in DOMAIN _container :
          (_is_root[r] /\ OnlyAdditionsAt({r})) => ~was_changed(_container, r, TRUE)
    /\ \A r \in DOMAIN _container :
          (_is_root[r] /\ \E n \in Sub(r) \ {r} : hist[n].added # <<>>)
            => was_changed(_container, r, TRUE)

\* Only a header was added, to a part below the root, and the root reports a
\* change under ignore_prepends while the part itself does not.
C3_Witness ==
    /\ OnlyAdditionsAt(DOMAIN hist)
    /\ \E n \in Sub(1) \ {1} :
          /\ hist[n].added # <<>>
          /\ ~was_changed(_container, n, TRUE)
          /\ was_changed(_container, 1, TRUE)

\* C3 as stated: the children and the enclosed node are asked with the same
\* flag, and with ignore_prepends set a tree to which only new headers were
\* added, at any node, reports false at the root.
C3_AsStated ==
    /\ \A n \in DOMAIN _container : \A ip \in BOOLEAN :
          InTree(n) => Unfolds(n, ip, ip)
    /\ \A r \in DOMAIN _container :
          (_is_root[r] /\ OnlyAdditionsAt(DOMAIN hist)) => ~was_changed(_container, r, TRUE)

\* ---- C4
\* Existing headers were given new values and nothing else was done.
OnlyEdits ==
    \A n \in DOMAIN hist :
        ~hist[n].removed /\ hist[n].added = <<>> /\ ~hist[n].written /\ ~hist[n].grown

\* C4: after only existing headers were given new values, serializing a node
\* with such a header in its tree does not take the fast path, does not fail,
\* never runs the encode pipeline, writes every line that is not a header line
\* (bodies, blank lines, boundaries) as in the original, writes every untouched
\* subtree from its original bytes, and writes the new header values.
C4_HeaderEdit ==
    (/\ Serialized
     /\ OnlyEdits
     /\ \E n \in Sub(last.node) : hist[n].edited)
    => /\ ~last.fast
       /\ last.exc = ""
       /\ last.enc = {}
       /\ NonHeader(Written) = NonHeader(Original(last.node))
       /\ \A n \in Sub(last.node) :
             (\A k \in Sub(n) : hist[k] = NoHist) => Occurs(Written, Original(n))
       /\ \A n \in Sub(last.node) :
             hist[n].edited => Occurs(Written, <<Header("hdr", <<"Subject", "s1", "">>)>>)

\* ---- C5
Unmutated == \A n \in DOMAIN hist : hist[n] = NoHist

\* C5: while nothing was written to a parsed tree, whatever was read from it,
\* was_changed() is false at every node, and every to_string and to_stream
\* returns without error the original bytes of its node, the same as the first
\* call returned.
C5_Idempotent ==
    Unmutated =>
        /\ \A n \in DOMAIN _container : InTree(n) => ~was_changed(_container, n, FALSE)
        /\ Serialized =>
              /\ last.exc = ""
              /\ Written = firstOut[last.node].out
              /\ Written = Original(last.node)

\* A node serialized a second time, its headers loaded in between.
C5_Witness ==
    /\ Unmutated
    /\ Serialized
    /\ firstOut[last.node].calls >= 2
    /\ last.pre[last.node]._headers.loaded

\* ---- C6
\* C6: a root whose headers are empty, serialized through the regeneration path,
\* fails with EncodingError whatever its content type; a singlepart node that is
\* not the root and has no headers is written as a blank line and its body.
C6_RootWithoutHeaders ==
    (/\ Regenerating
     /\ last.pre[last.node]._headers.loaded
     /\ Len(last.pre[last.node]._headers.v) = 0)
    => IF _is_root[last.node] THEN last.exc = "EncodingError"
       ELSE is_singlepart(last.pre[last.node].content_type) /\ ~body_changed(last.pre[last.node])
              => last.exc = "" /\ Written = <<_CRLF>> \o read_body(last.pre[last.node])

\* ---- C7
\* What to_stream of part c writes into an empty sink.
PartOut(c) ==
    to_stream([c |-> last.pre, out |-> <<>>, pos |-> 0, exc |-> "", enc |-> {}, fb |-> {}],
              c).out

\* The boundary lines and the parts of node n from position i on.
RECURSIVE PartsLayout(_, _)
PartsLayout(n, i) ==
    IF i > Len(parts[n]) THEN <<>>
    ELSE (IF i = 1 THEN <<>> ELSE <<_CRLF>>)
         \o <<get_boundary_line(last.pre[n].content_type, FALSE), _CRLF>>
         \o PartOut(parts[n][i]) \o PartsLayout(n, i + 1)

\* C7: a regenerated multipart node with N parts writes its headers, a blank
\* line, for each part in order a boundary line (after a line terminator unless
\* the part is the first) and the part's serialization, then a line terminator
\* and the terminal boundary line: N opening boundary lines, one terminal one.
C7_MultipartLayout ==
    (/\ Regenerating
     /\ last.exc = ""
     /\ is_multipart(last.pre[last.node].content_type)
     /\ \A f \in last.fb : f.node # last.node)
    => LET n == last.node
           ctype == last.pre[n].content_type
           final == get_boundary_line(ctype, TRUE)
       IN /\ Written = headers_to_stream(_container[n]._headers, FALSE) \o <<_CRLF>>
                       \o PartsLayout(n, 1) \o <<_CRLF, final, _CRLF>>
          /\ Count(Written, get_boundary_line(ctype, FALSE)) = Len(parts[n])
          /\ Count(Written, final) = 1

\* A multipart node with three parts, one of them new, was regenerated.
C7_Witness ==
    /\ Regenerating
    /\ last.exc = ""
    /\ is_multipart(last.pre[last.node].content_type)
    /\ Len(parts[last.node]) = 3
    /\ last.enc # {}

\* ---- C8
\* The tree under n is as the parser and the constructors leave it: children
\* under multipart nodes only, an enclosed node under every message container
\* and under no other node.
WellFormed(n) ==
    \A x \in Sub(n) :
        /\ Len(parts[x]) > 0 => is_multipart(_container[x].content_type)
        /\ enclosed[x] # 0 <=> is_message_container(_container[x].content_type)

\* The nodes of the tree under n that lie below a message container.
Enclosed(n) == UNION {Sub(enclosed[x]) : x \in {y \in Sub(n) : enclosed[y] # 0}}

Range(r) == {r[i] : i \in 1..Len(r)}

Pos(r, x) == CHOOSE i \in 1..Len(r) : r[i] = x

\* r lists each of its nodes once, every node before the nodes under it and
\* these right after it, the children of a node in the order of its parts.
PreOrder(r) ==
    /\ \A i, j \in 1..Len(r) : r[i] = r[j] => i = j
    /\ \A x \in Range(r) :
          LET under == Sub(x) \cap Range(r)
          IN {Pos(r, y) : y \in under} = Pos(r, x)..(Pos(r, x) + Cardinality(under) - 1)
    /\ \A x \in Range(r) : \A i, j \in 1..Len(parts[x]) :
          (i < j /\ parts[x][i] \in Range(r) /\ parts[x][j] \in Range(r))
            => Pos(r, parts[x][i]) < Pos(r, parts[x][j])

\* Node n is a multipart node with N children, each with M children and no
\* enclosed node, and nothing lies under these M.
Uniform(n, N, M) ==
    /\ is_multipart(_container[n].content_type)
    /\ Len(parts[n]) = N
    /\ \A i \in 1..N :
          /\ Len(parts[parts[n][i]]) = M
          /\ enclosed[parts[n][i]] = 0
          /\ \A j \in 1..M : Sub(parts[parts[n][i]][j]) = {parts[parts[n][i]][j]}

\* C8: walk(with_self=True) on a well-formed tree yields every node of the tree
\* once, in depth-first pre-order with the children in the order of parts, so
\* 1 + N + N*M nodes for N children with M children each; with skip_enclosed
\* it yields, in the same order, the nodes that do not lie below a message
\* container, and none that does.
C8_Walk ==
    (/\ walked.node # 0
     /\ walked.with_self
     /\ WellFormed(walked.node))
    => LET r == walked.result
           all == Sub(walked.node)
           expected == IF walked.skip_enclosed THEN all \ Enclosed(walked.node) ELSE all
       IN /\ Range(r) = expected
          /\ Len(r) = Cardinality(expected)
          /\ r[1] = walked.node
          /\ PreOrder(r)
          /\ \A N, M \in 0..MaxTree :
                (Uniform(walked.node, N, M) /\ ~walked.skip_enclosed)
                  => Len(r) = 1 + N + N * M

\* The walk of a root with two children that have one child each.
C8_Witness ==
    /\ walked.node = 1
    /\ walked.with_self
    /\ ~walked.skip_enclosed
    /\ WellFormed(1)
    /\ Uniform(1, 2, 1)
    /\ Len(walked.result) = 5

\* ---- C9
LineStart(s, i) == i = 1 \/ s[i - 1] = LF

\* C9: no line of the output of fix_leading_dot begins with a dot, the
\* continuation line of a line that was split included, and every '=' of the
\* output is still followed by its two hexadecimal digits or by the end of the
\* line, so no split fell inside an escape.
C9_NoLeadingDot ==
    dot.fixed # <<>> =>
        /\ \A i \in 1..Len(dot.fixed) : LineStart(dot.fixed, i) => dot.fixed[i] # DOT
        /\ \A i \in 1..Len(dot.fixed) :
              dot.fixed[i] = EQ =>
                  \/ i < Len(dot.fixed) /\ dot.fixed[i + 1] = LF
                  \/ /\ i + 2 <= Len(dot.fixed)
                     /\ ishex(<<dot.fixed[i + 1]>>) /\ ishex(<<dot.fixed[i + 2]>>)

\* A line was split where its continuation began with a dot, next to an escape.
C9_Witness ==
    /\ \E i \in 1..(Len(dot.fixed) - 4) :
          SubSeq(dot.fixed, i, i + 4) = <<EQ, LF, EQ, 50, 69>>
    /\ \E i \in 4..(Len(dot.fixed) - 4) :
          /\ SubSeq(dot.fixed, i, i + 1) = <<EQ, LF>>
          /\ dot.fixed[i - 3] = EQ \/ dot.fixed[i + 2] = EQ

\* ---- C10
\* C10: decoding the output of fix_leading_dot as quoted-printable gives the
\* bytes that decoding its input gives, which are the bytes that were encoded.
C10_SameContent ==
    dot.fixed # <<>> =>
        /\ decodestring(dot.fixed) = decodestring(dot.qp)
        /\ decodestring(dot.fixed) = dot.raw

\* A line was split after a space, which was escaped before the soft line break.
C10_Witness ==
    /\ Len(dot.fixed) > Len(dot.qp)
    /\ \E i \in 1..(Len(dot.fixed) - 4) :
          SubSeq(dot.fixed, i, i + 4) = <<EQ, 50, 48, EQ, LF>>

\* ------------------------------------------------------------------------
\* C11: the body-changed flag of a stream-backed container is set exactly when
\* some body write supplied a value different from the decoded body current at
\* that write; a write of the decoded original never sets it, whether or not the
\* body had been read before.
C11_BodyChanged ==
    \A n \in Nodes :
        _container[n].kind = "Stream" =>
            (body_changed(_container[n]) <=> hist[n].differed)

\* ------------------------------------------------------------------------
\* The tops of the trees: the parts that are in no other part.
Tops == {t \in WalkNodes : InTree(t) /\ ~Attached(t)}

\* The nodes of the tree under t whose is_root is true.
Roots(t) == {n \in Sub(t) : _is_root[n]}

Rank(e) ==
    IF e = "7bit" THEN 0
    ELSE IF e \in {"quoted-printable", "base64"} THEN 1
    ELSE IF e = "8bit" THEN 2
    ELSE -1

\* The last operation serialized node n and encoded its mutated body.
Encoded(n) == Serialized /\ last.exc = "" /\ n = last.node /\ n \in last.enc

\* The headers of node n when the last serialization began.
HeadersBefore(n) ==
    IF last.pre[n].kind = "Stream" /\ ~last.pre[n]._headers.loaded
    THEN MimeHeaders(from_stream(string, last.pre[n].start).items)
    ELSE last.pre[n]._headers

DeclaredBefore(n) == get(HeadersBefore(n), "Content-Transfer-Encoding", CTE)[2]
Chosen(n) == get(_container[n]._headers, "Content-Transfer-Encoding", CTE)[2]
TextBody(n) == last.pre[n].content_type.main = "text" /\ ~is_attachment(HeadersBefore(n))

\* The encoding chosen for node n follows the rule of the claim: the declared
\* one for a short-lined text in ascii, us-ascii or iso-8859-1, otherwise
\* stronger(declared, quoted-printable), and base64 for attachments and non-text.
EncodingRule(n) ==
    LET declared == DeclaredBefore(n)
        chosen == Chosen(n)
        stronger == _stronger_encoding(declared, "quoted-printable")
    IN /\ stronger \in {declared, "quoted-printable"}
       /\ Rank(stronger) >= Rank(declared) /\ Rank(stronger) >= Rank("quoted-printable")
       /\ _stronger_encoding(declared, stronger) = stronger
       /\ IF ~TextBody(n) THEN chosen = "base64"
          ELSE IF /\ get_charset(_container[n].content_type)
                        \in {"ascii", "us-ascii", "iso-8859-1"}
                  /\ ~has_long_lines(last.pre[n]._body)
          THEN chosen = declared
          ELSE chosen = stronger

\* The encoding chosen for node n is not weaker than the one declared before.
NotWeaker(n) == Rank(Chosen(n)) >= Rank(DeclaredBefore(n))

\* C13 (amended): the encoding chosen for a mutated body follows the rule, and
\* for a text part that is not an attachment it is never weaker than the one
\* declared before; attachments and non-text parts get base64 whatever was
\* declared.
C13_Encoding ==
    \A n \in Nodes : Encoded(n) => EncodingRule(n) /\ (TextBody(n) => NotWeaker(n))

\* A text declared 7bit whose mutated body has a line of max_line_len
\* characters is serialized as quoted-printable.
C13_Witness ==
    /\ Encoded(1) /\ TextBody(1)
    /\ DeclaredBefore(1) = "7bit"
    /\ last.pre[1]._body = Fill(97, max_line_len)
    /\ Chosen(1) = "quoted-printable"

\* C13 as stated: the encoding chosen follows the rule and is never weaker than
\* the one declared before, for every part.
C13_AsStated ==
    \A n \in Nodes : Encoded(n) => EncodingRule(n) /\ NotWeaker(n)

\* ------------------------------------------------------------------------
\* Node n takes body writes (part.py:456-460).
TakesBody(n) ==
    /\ InTree(n)
    /\ is_singlepart(_container[n].content_type)
        \/ is_delivery_status(_container[n].content_type)

\* C14: once a body write to a singlepart or delivery-status node has stored a
\* value different from the current one, was_changed() of the node is true, and a
\* serialization of the node that returns has emitted the body written, not the
\* original bytes.
C14_WriteVisible ==
    /\ \A n \in Nodes :
          (TakesBody(n) /\ body_changed(_container[n])) => was_changed(_container, n, FALSE)
    /\ (Serialized /\ last.exc = "") =>
          \A n \in Sub(last.node) :
              (TakesBody(n) /\ body_changed(last.pre[n])) => n \in last.enc

====
